---- MODULE Spec2Model ----
(***************************************************************************)
(* A model of cognitive_agent/agent.py: the KnowledgeGraph, the Memory and *)
(* the CognitiveAgent.run supervisor loop (Plan -> Act -> Reflect).        *)
(*                                                                         *)
(* Text is modelled as a sequence of one-character strings, so that the    *)
(* string operations of the code (startswith, split, strip, the regular    *)
(* expressions, json.loads / json.dumps) are computed character by         *)
(* character as Python computes them.                                      *)
(***************************************************************************)
EXTENDS Integers, Sequences, FiniteSets, TLC

(***************************************************************************)
(* Bounds of the model.                                                    *)
(***************************************************************************)
MaxModelCalls == 5  \* model invocations, over all the runs of the agent
MaxAddText == 2     \* direct KnowledgeGraph.add_text calls
MaxLong == 2        \* persist_long calls
MaxRecall == 3      \* largest n passed to recall_long
MaxTime == 1        \* clock readings are drawn from 0..MaxTime
MaxReflectLen == 101 \* longest reflection text of filler characters

\* Optional values: None, or Some(x)
None == << >>
Some(x) == << x >>

(***************************************************************************)
(* Character classes (ASCII), as str.isupper, \w, \s and [a-zA-Z] see them.*)
(***************************************************************************)
Upper == {"A","B","C","D","E","F","G","H","I","J","K","L","M","N","O","P","Q",
          "R","S","T","U","V","W","X","Y","Z"}
Lower == {"a","b","c","d","e","f","g","h","i","j","k","l","m","n","o","p","q",
          "r","s","t","u","v","w","x","y","z"}
Digit == {"0","1","2","3","4","5","6","7","8","9"}
Letter == Upper \cup Lower
WordCh == Letter \cup Digit \cup {"_"}
Space == {" ", "\t", "\n", "\r"}
Terminal == {".", "?", "!"}

Min(S) == CHOOSE x \in S : \A y \in S : x <= y
Max(S) == CHOOSE x \in S : \A y \in S : x >= y

(***************************************************************************)
(* Text helpers.                                                           *)
(***************************************************************************)
\* s[a..b] (1-based, inclusive), empty when a > b
Slice(s, a, b) == IF a > b THEN << >> ELSE SubSeq(s, a, b)

\* the first position >= i holding a character outside S (past the end if none)
RECURSIVE RunEnd(_, _, _)
RunEnd(s, i, S) == IF i > Len(s) \/ s[i] \notin S THEN i ELSE RunEnd(s, i + 1, S)

\* the first position >= i holding a character of S (past the end if none)
RECURSIVE First(_, _, _)
First(s, i, S) == IF i > Len(s) \/ s[i] \in S THEN i ELSE First(s, i + 1, S)

\* the last position <= i holding a character outside S (0 if none)
RECURSIVE LastOutside(_, _, _)
LastOutside(s, i, S) == IF i = 0 \/ s[i] \notin S THEN i ELSE LastOutside(s, i - 1, S)

\* str.startswith
StartsWith(s, p) == Len(s) >= Len(p) /\ Slice(s, 1, Len(p)) = p

\* does p occur in s at position i
OccursAt(s, p, i) == i + Len(p) - 1 <= Len(s) /\ Slice(s, i, i + Len(p) - 1) = p

\* `part in text`
Contains(text, part) == \E j \in 1..(Len(text) + 1) : OccursAt(text, part, j)

\* str.strip(): leading and trailing whitespace removed
Strip(s) ==
  Slice(s, RunEnd(s, 1, Space), LastOutside(s, Len(s), Space))

\* str.split(sep) that forgets maxsplit: every sep cuts
RECURSIVE SplitEvery(_, _, _)
SplitEvery(s, sep, maxsplit) ==
  LET j == First(s, 1, {sep})
  IN  IF j > Len(s)
      THEN << s >>
      ELSE << Slice(s, 1, j - 1) >> \o SplitEvery(Slice(s, j + 1, Len(s)), sep, maxsplit)

\* str.split(sep, maxsplit) for a one-character sep: at most maxsplit cuts
RECURSIVE SplitMax(_, _, _)
SplitMax(s, sep, maxsplit) ==
  LET j == First(s, 1, {sep})
  IN  IF maxsplit = 0 \/ j > Len(s)
      THEN << s >>
      ELSE << Slice(s, 1, j - 1) >>
             \o SplitMax(Slice(s, j + 1, Len(s)), sep, maxsplit - 1)

\* re.split(r"[.?!]", text): every terminal character cuts
RECURSIVE SplitSentences(_)
SplitSentences(s) ==
  LET j == First(s, 1, Terminal)
  IN  IF j > Len(s)
      THEN << s >>
      ELSE << Slice(s, 1, j - 1) >> \o SplitSentences(Slice(s, j + 1, Len(s)))

\* str.split() with no argument: the maximal runs of non-whitespace
RECURSIVE Words(_)
Words(s) ==
  LET a == RunEnd(s, 1, Space)
  IN  IF a > Len(s)
      THEN << >>
      ELSE LET b == First(s, a, Space)
           IN  << Slice(s, a, b - 1) >> \o Words(Slice(s, b, Len(s)))

\* str.replace(old, ""): every non-overlapping occurrence removed, left to right
RECURSIVE RemoveAll(_, _)
RemoveAll(s, old) ==
  LET occ == {j \in 1..(Len(s) - Len(old) + 1) : OccursAt(s, old, j)}
  IN  IF old = << >> \/ occ = {} THEN s
      ELSE Slice(s, 1, Min(occ) - 1)
             \o RemoveAll(Slice(s, Min(occ) + Len(old), Len(s)), old)

(***************************************************************************)
(* JSON values: Python's str, int, float, bool, None, list and dict as     *)
(* json.loads builds them.  A dict is its (key, value) pairs in insertion  *)
(* order.  The parser covers strings with the escapes \" \\ \n \t \r,      *)
(* integers, true/false/null, arrays and objects; fractions and exponents  *)
(* are outside the inputs of the model.                                    *)
(***************************************************************************)
JStr(s) == [t |-> "str", s |-> s]
JNum(n) == [t |-> "num", n |-> n]
JFloat(n) == [t |-> "float", n |-> n]   \* the float n.0
JBool(b) == [t |-> "bool", b |-> b]
JNull == [t |-> "null"]
JArr(a) == [t |-> "arr", a |-> a]
JObj(o) == [t |-> "obj", o |-> o]

Fail == [ok |-> FALSE, val |-> JNull, next |-> 0]
Got(v, n) == [ok |-> TRUE, val |-> v, next |-> n]

DigitVal(c) == CHOOSE d \in 0..9 : <<"0","1","2","3","4","5","6","7","8","9">>[d + 1] = c

RECURSIVE DigitsVal(_)
DigitsVal(ds) ==
  IF ds = << >> THEN 0
  ELSE DigitsVal(SubSeq(ds, 1, Len(ds) - 1)) * 10 + DigitVal(ds[Len(ds)])

RECURSIVE NatText(_)
NatText(n) ==
  LET d == << <<"0","1","2","3","4","5","6","7","8","9">>[(n % 10) + 1] >>
  IN  IF n < 10 THEN d ELSE NatText(n \div 10) \o d

IntText(n) == IF n < 0 THEN <<"-">> \o NatText(0 - n) ELSE NatText(n)

\* dict[k] = v: a repeated key keeps its place and takes the new value
DictSet(o, k, v) ==
  IF \E j \in 1..Len(o) : o[j][1] = k
  THEN [j \in 1..Len(o) |-> IF o[j][1] = k THEN <<k, v>> ELSE o[j]]
  ELSE Append(o, <<k, v>>)

DictHas(o, k) == \E j \in 1..Len(o) : o[j][1] = k
DictGet(o, k) == o[CHOOSE j \in 1..Len(o) : o[j][1] = k][2]

\* the body of a JSON string from position i (after the opening quote)
RECURSIVE ParseChars(_, _, _)
ParseChars(s, i, acc) ==
  IF i > Len(s) THEN Fail
  ELSE IF s[i] = "\"" THEN Got(JStr(acc), i + 1)
  ELSE IF s[i] = "\\"
       THEN IF i + 1 > Len(s) THEN Fail
            ELSE IF s[i + 1] \in {"\"", "\\", "/"}
                 THEN ParseChars(s, i + 2, Append(acc, s[i + 1]))
            ELSE IF s[i + 1] = "n" THEN ParseChars(s, i + 2, Append(acc, "\n"))
            ELSE IF s[i + 1] = "t" THEN ParseChars(s, i + 2, Append(acc, "\t"))
            ELSE IF s[i + 1] = "r" THEN ParseChars(s, i + 2, Append(acc, "\r"))
            ELSE Fail
  ELSE IF s[i] \in {"\n", "\t", "\r"} THEN Fail   \* control characters need an escape
  ELSE ParseChars(s, i + 1, Append(acc, s[i]))

ParseNumber(s, i) ==
  LET neg == s[i] = "-"
      a == IF neg THEN i + 1 ELSE i
      b == RunEnd(s, a, Digit)
  IN  IF b = a THEN Fail
      ELSE IF s[a] = "0"
           THEN Got(JNum(0), a + 1)
           ELSE Got(JNum(IF neg THEN 0 - DigitsVal(Slice(s, a, b - 1))
                                ELSE DigitsVal(Slice(s, a, b - 1))), b)

RECURSIVE ParseValue(_, _), ParseElems(_, _, _), ParseMembers(_, _, _)
ParseValue(s, i0) ==
  LET i == RunEnd(s, i0, Space)
  IN  IF i > Len(s) THEN Fail
      ELSE IF s[i] = "\"" THEN ParseChars(s, i + 1, << >>)
      ELSE IF s[i] \in Digit \cup {"-"} THEN ParseNumber(s, i)
      ELSE IF OccursAt(s, <<"t","r","u","e">>, i) THEN Got(JBool(TRUE), i + 4)
      ELSE IF OccursAt(s, <<"f","a","l","s","e">>, i) THEN Got(JBool(FALSE), i + 5)
      ELSE IF OccursAt(s, <<"n","u","l","l">>, i) THEN Got(JNull, i + 4)
      ELSE IF s[i] = "["
           THEN LET j == RunEnd(s, i + 1, Space)
                IN  IF j <= Len(s) /\ s[j] = "]" THEN Got(JArr(<< >>), j + 1)
                    ELSE ParseElems(s, i + 1, << >>)
      ELSE IF s[i] = "{"
           THEN LET j == RunEnd(s, i + 1, Space)
                IN  IF j <= Len(s) /\ s[j] = "}" THEN Got(JObj(<< >>), j + 1)
                    ELSE ParseMembers(s, i + 1, << >>)
      ELSE Fail

\* value ("," value)* "]"
ParseElems(s, i, acc) ==
  LET v == ParseValue(s, i)
      j == RunEnd(s, v.next, Space)
  IN  IF ~v.ok \/ j > Len(s) THEN Fail
      ELSE IF s[j] = "]" THEN Got(JArr(Append(acc, v.val)), j + 1)
      ELSE IF s[j] = "," THEN ParseElems(s, j + 1, Append(acc, v.val))
      ELSE Fail

\* string ":" value ("," string ":" value)* "}"
ParseMembers(s, i0, acc) ==
  LET i == RunEnd(s, i0, Space)
      k == IF i <= Len(s) /\ s[i] = "\"" THEN ParseChars(s, i + 1, << >>) ELSE Fail
      c == RunEnd(s, k.next, Space)
      v == IF k.ok /\ c <= Len(s) /\ s[c] = ":" THEN ParseValue(s, c + 1) ELSE Fail
      j == RunEnd(s, v.next, Space)
  IN  IF ~v.ok \/ j > Len(s) THEN Fail
      ELSE IF s[j] = "}" THEN Got(JObj(DictSet(acc, k.val.s, v.val)), j + 1)
      ELSE IF s[j] = "," THEN ParseMembers(s, j + 1, DictSet(acc, k.val.s, v.val))
      ELSE Fail

\* json.loads(text): [ok, val]; ok = FALSE is json.JSONDecodeError
json_loads(s) ==
  LET v == ParseValue(s, 1)
  IN  IF v.ok /\ RunEnd(s, v.next, Space) > Len(s)
      THEN [ok |-> TRUE, val |-> v.val]
      ELSE [ok |-> FALSE, val |-> JNull]

RECURSIVE EscapeText(_)
EscapeText(s) ==
  IF s = << >> THEN << >>
  ELSE (IF Head(s) = "\"" THEN <<"\\", "\"">>
        ELSE IF Head(s) = "\\" THEN <<"\\", "\\">>
        ELSE IF Head(s) = "\n" THEN <<"\\", "n">>
        ELSE IF Head(s) = "\t" THEN <<"\\", "t">>
        ELSE IF Head(s) = "\r" THEN <<"\\", "r">>
        ELSE << Head(s) >>) \o EscapeText(Tail(s))

\* json.dumps(value) with the default separators ", " and ": "
RECURSIVE json_dumps(_), DumpElems(_), DumpMembers(_)
json_dumps(v) ==
  IF v.t = "str" THEN <<"\"">> \o EscapeText(v.s) \o <<"\"">>
  ELSE IF v.t = "num" THEN IntText(v.n)
  ELSE IF v.t = "float" THEN IntText(v.n) \o <<".", "0">>
  ELSE IF v.t = "bool" THEN (IF v.b THEN <<"t","r","u","e">> ELSE <<"f","a","l","s","e">>)
  ELSE IF v.t = "null" THEN <<"n","u","l","l">>
  ELSE IF v.t = "arr" THEN <<"[">> \o DumpElems(v.a) \o <<"]">>
  ELSE <<"{">> \o DumpMembers(v.o) \o <<"}">>

DumpElems(a) ==
  IF a = << >> THEN << >>
  ELSE json_dumps(Head(a)) \o (IF Len(a) > 1 THEN <<",", " ">> ELSE << >>) \o DumpElems(Tail(a))

DumpMembers(o) ==
  IF o = << >> THEN << >>
  ELSE json_dumps(JStr(Head(o)[1])) \o <<":", " ">> \o json_dumps(Head(o)[2])
         \o (IF Len(o) > 1 THEN <<",", " ">> ELSE << >>) \o DumpMembers(Tail(o))

\* str(value) as an f-string formats it; repr for what a container holds
RECURSIVE PyRepr(_), ReprElems(_), ReprMembers(_)
PyRepr(v) ==
  IF v.t = "str" THEN <<"'">> \o v.s \o <<"'">>
  ELSE IF v.t = "num" THEN IntText(v.n)
  ELSE IF v.t = "float" THEN IntText(v.n) \o <<".", "0">>
  ELSE IF v.t = "bool" THEN (IF v.b THEN <<"T","r","u","e">> ELSE <<"F","a","l","s","e">>)
  ELSE IF v.t = "null" THEN <<"N","o","n","e">>
  ELSE IF v.t = "arr" THEN <<"[">> \o ReprElems(v.a) \o <<"]">>
  ELSE <<"{">> \o ReprMembers(v.o) \o <<"}">>

ReprElems(a) ==
  IF a = << >> THEN << >>
  ELSE PyRepr(Head(a)) \o (IF Len(a) > 1 THEN <<",", " ">> ELSE << >>) \o ReprElems(Tail(a))

ReprMembers(o) ==
  IF o = << >> THEN << >>
  ELSE PyRepr(JStr(Head(o)[1])) \o <<":", " ">> \o PyRepr(Head(o)[2])
         \o (IF Len(o) > 1 THEN <<",", " ">> ELSE << >>) \o ReprMembers(Tail(o))

PyStr(v) == IF v.t = "str" THEN v.s ELSE PyRepr(v)

(***************************************************************************)
(* KnowledgeGraph.  kg = [nodes: set of text, edges: sequence of           *)
(* <<subject, verb, object>>].                                             *)
(***************************************************************************)
KGInit == [nodes |-> {}, edges |-> << >>]

\* The pattern \b(\w+)\s+(?:the\s+)?([A-Z][a-zA-Z]+) tried at position i of s.
\* Every quantifier is greedy and is followed by a character outside its own
\* class, so the only match at i takes the maximal runs.
PairAt(s, i) ==
  LET e1 == RunEnd(s, i, WordCh)
      e2 == RunEnd(s, e1, Space)
      t2 == RunEnd(s, e2 + 3, Space)
      hasThe == OccursAt(s, <<"t","h","e">>, e2) /\ t2 > e2 + 3
      q == IF hasThe THEN t2 ELSE e2
      e3 == RunEnd(s, q, Letter)
  IN  [ok |-> /\ s[i] \in WordCh
              /\ (i = 1 \/ s[i - 1] \notin WordCh)
              /\ e2 > e1
              /\ q <= Len(s) /\ s[q] \in Upper
              /\ e3 >= q + 2,
       verb |-> Slice(s, i, e1 - 1),
       obj |-> Slice(s, q, e3 - 1),
       next |-> e3]

\* re.findall(pattern, s) scanning from position pos: leftmost matches, each
\* search resuming where the previous match ended
RECURSIVE FindPairs(_, _)
FindPairs(s, pos) ==
  LET m == PairAt(s, pos)
  IN  IF pos > Len(s) THEN << >>
      ELSE IF m.ok THEN << <<m.verb, m.obj>> >> \o FindPairs(s, m.next)
      ELSE FindPairs(s, pos + 1)

\* the inner loop of add_text: for verb, obj in pairs
RECURSIVE AddPairs(_, _, _)
AddPairs(kg, subject, pairs) ==
  IF pairs = << >> THEN kg
  ELSE LET verb == Head(pairs)[1]
           obj == Head(pairs)[2]
           kg1 == IF subject # None
                  THEN [nodes |-> kg.nodes \cup {obj},
                        edges |-> Append(kg.edges, <<subject[1], verb, obj>>)]
                  ELSE [kg EXCEPT !.nodes = kg.nodes \cup {obj}]
       IN  AddPairs(kg1, subject, Tail(pairs))

\* add_text's loop body with `self.nodes = {subject}` for `self.nodes.add(subject)`
AddSentenceAssign(kg, sentence) ==
  LET words == Words(Strip(sentence))
      subject == IF words[1][1] \in Upper THEN Some(words[1]) ELSE None
      kg1 == IF subject # None THEN [kg EXCEPT !.nodes = {subject[1]}] ELSE kg
  IN  IF words = << >> THEN kg
      ELSE AddPairs(kg1, subject, FindPairs(sentence, 1))

\* the body of add_text's loop for one sentence
AddSentence(kg, sentence) ==
  LET words == Words(Strip(sentence))
      subject == IF words[1][1] \in Upper THEN Some(words[1]) ELSE None
      kg1 == IF subject # None THEN [kg EXCEPT !.nodes = kg.nodes \cup {subject[1]}] ELSE kg
  IN  IF words = << >> THEN kg
      ELSE AddPairs(kg1, subject, FindPairs(sentence, 1))

RECURSIVE AddSentences(_, _)
AddSentences(kg, sentences) ==
  IF sentences = << >> THEN kg
  ELSE AddSentences(AddSentence(kg, Head(sentences)), Tail(sentences))

\* KnowledgeGraph.add_text
add_text(kg, text) == AddSentences(kg, SplitSentences(text))

\* KnowledgeGraph.summary: nodes is a new list of the set (its order is the
\* set's iteration order, left open here), edges is the graph's own list
\* object, not a copy
summary(kg) == [nodes |-> kg.nodes, edges |-> [ref |-> "kg.edges"]]

(***************************************************************************)
(* Memory.  mem = [short_term, long_term, path]; the durable log is the    *)
(* text of the file at path.                                               *)
(***************************************************************************)
MemoryInit(path) == [short_term |-> << >>, long_term |-> << >>, path |-> path]

\* the entry persist_long builds
LongEntry(text, now) == [text |-> text, timestamp |-> now]

\* the line persist_long writes: json.dumps(entry) + "\n"
LogLine(entry) ==
  json_dumps(JObj(<< << <<"t","e","x","t">>, JStr(entry.text) >>,
                     << <<"t","i","m","e","s","t","a","m","p">>, JFloat(entry.timestamp) >> >>))
    \o <<"\n">>

\* `if self.path:` -- None and the empty string are both false
Truthy(path) == path # None /\ path[1] # << >>

\* persist_long opening the log with mode "w": each write replaces the log
persist_long_rewrite(mem, file, text, now, io_ok) ==
  LET entry == LongEntry(text, now)
      mem1 == [mem EXCEPT !.long_term = Append(mem.long_term, entry)]
  IN  IF ~Truthy(mem.path) THEN [mem |-> mem1, file |-> file, raised |-> FALSE]
      ELSE IF io_ok THEN [mem |-> mem1, file |-> LogLine(entry), raised |-> FALSE]
      ELSE [mem |-> mem1, file |-> file, raised |-> TRUE]

\* Memory.persist_long with the clock reading now.  io_ok = FALSE is open()
\* or write() raising: the entry is already in long_term and the call raises.
persist_long(mem, file, text, now, io_ok) ==
  LET entry == LongEntry(text, now)
      mem1 == [mem EXCEPT !.long_term = Append(mem.long_term, entry)]
  IN  IF ~Truthy(mem.path) THEN [mem |-> mem1, file |-> file, raised |-> FALSE]
      ELSE IF io_ok THEN [mem |-> mem1, file |-> file \o LogLine(entry), raised |-> FALSE]
      ELSE [mem |-> mem1, file |-> file, raised |-> TRUE]

\* list[-n:] as Python slices: a negative start counts from the end and is
\* clamped at 0, a start of 0 (n = 0) is the whole list
TailSlice(list, n) ==
  LET start == IF 0 - n < 0 THEN Max({Len(list) - n, 0}) ELSE Min({0 - n, Len(list)})
  IN  Slice(list, start + 1, Len(list))

\* recall_long slicing from the front: self.long_term[:n]
recall_oldest(mem, n) == Slice(mem.long_term, 1, Min({n, Len(mem.long_term)}))

\* Memory.recall_long
recall_long(mem, n) == TailSlice(mem.long_term, n)

\* Memory.add_short
add_short(mem, role, content) ==
  [mem EXCEPT !.short_term = Append(mem.short_term, [role |-> role, content |-> content])]

\* Memory.get_context
get_context(mem) == TailSlice(mem.short_term, 5)

(***************************************************************************)
(* CognitiveAgent.  A run is the record of one call of run(): its position *)
(* (pc), its arguments and its local variables.  The model, the tools and  *)
(* the sink are external callables: run() is cut at each call of one of    *)
(* them, and each piece is an operator from the world before it to the     *)
(* world after it.  A world is what one run can read and write:            *)
(*   [stream, tools, mem, kg, run, events].                                *)
(***************************************************************************)
TOOL_PREFIX == <<"T","O","O","L",":">>
FINAL_MARK == <<"F","I","N","A","L",":">>
FallbackStep == <<"P","e","r","f","o","r","m"," ","t","h","e"," ","t","a","s","k"," ","d","i","r","e","c","t","l","y">>
FallbackPlan ==
  JObj(<< << <<"s","t","e","p","s">>, JArr(<< JStr(FallbackStep) >>) >>,
          << <<"r","a","t","i","o","n","a","l","e">>, JStr(<<"F","a","l","l","b","a","c","k"," ","s","i","m","p","l","e"," ","p","l","a","n",".">>) >> >>)

UsageKeys == {"prompt_tokens", "completion_tokens", "total_tokens"}
ZeroUsage == [steps |-> 0, prompt_tokens |-> 0, completion_tokens |-> 0, total_tokens |-> 0]

\* dict.get(key, 0) on a usage mapping
UGet(new, key) == IF key \in DOMAIN new THEN new[key] ELSE 0

\* CognitiveAgent._accumulate_usage
accumulate_usage(usage, new) ==
  [k \in DOMAIN usage |-> IF k \in UsageKeys THEN usage[k] + UGet(new, k) ELSE usage[k]]

\* response.get("usage", {})
RespUsage(resp) == IF resp.usage = None THEN << >> ELSE resp.usage[1]

IdleRun ==
  [pc |-> "idle", objective |-> << >>, sink |-> FALSE, trace |-> << >>,
   usage |-> ZeroUsage, steps |-> << >>, i |-> 0, prompt |-> << >>,
   plan_response |-> None, content |-> << >>, resp_usage |-> << >>,
   tool_name |-> << >>, tool_input |-> << >>, result |-> None, error |-> "none"]

\* an exception leaves run(): no value is returned
Raise(w, err) == [w EXCEPT !.run.pc = "raised", !.run.error = err]
Raised(w) == w.run.pc = "raised"

\* emit_stream_event without its `if stream_callback:` guard: calling None raises
emit_unguarded(w, event_type, data) ==
  IF w.run.sink
  THEN [w EXCEPT !.events = Append(w.events, [type |-> event_type, data |-> data])]
  ELSE Raise(w, "TypeError")

\* CognitiveAgent.emit_stream_event: the sink is called only when one was passed
emit_stream_event(w, event_type, data) ==
  IF w.run.sink
  THEN [w EXCEPT !.events = Append(w.events, [type |-> event_type, data |-> data])]
  ELSE w

\* `if self.stream_response: self.emit_stream_event(...)`
StreamEvent(w, event_type, data) ==
  IF w.stream THEN emit_stream_event(w, event_type, data) ELSE w

\* run() that starts by clearing the short-term memory
run_start_reset(w, objective, sink) ==
  [w EXCEPT !.run = [IdleRun EXCEPT !.pc = "plan", !.objective = objective,
                                    !.sink = sink,
                                    !.prompt = <<"P","l","a","n","n","e","r",":"," ","C","r","e","a","t","e"," ","a"," ","p","l","a","n"," ","t","o"," ","a","c","h","i","e","v","e"," ","t","h","e"," ","o","b","j","e","c","t","i","v","e",":"," ">> \o objective],
            !.events = << >>,
            !.mem.short_term = << >>]

\* run(), lines 112-118: the locals are set up and the model is called to plan
run_start(w, objective, sink) ==
  [w EXCEPT !.run = [IdleRun EXCEPT !.pc = "plan", !.objective = objective,
                                    !.sink = sink,
                                    !.prompt = <<"P","l","a","n","n","e","r",":"," ","C","r","e","a","t","e"," ","a"," ","p","l","a","n"," ","t","o"," ","a","c","h","i","e","v","e"," ","t","h","e"," ","o","b","j","e","c","t","i","v","e",":"," ">> \o objective],
            !.events = << >>]

\* `for step in ...`: the next step if there is one, else the reflection call
NextStep(w) ==
  IF w.run.i < Len(w.run.steps)
  THEN [w EXCEPT !.run.pc = "think", !.run.i = w.run.i + 1]
  ELSE [w EXCEPT !.run.pc = "reflect",
                 !.run.prompt = <<"R","e","f","l","e","c","t","o","r",":"," ","R","e","f","l","e","c","t"," ","o","n"," ","h","o","w"," ","w","e","l","l"," ","t","h","e"," ","a","g","e","n","t"," ","a","c","h","i","e","v","e","d"," ","t","h","e"," ","o","b","j","e","c","t","i","v","e",":"," ">>
                                  \o w.run.objective]

\* what `for step in plan.get("steps", [])` iterates over: [ok, steps]
PlanSteps(plan) ==
  LET v == IF DictHas(plan.o, <<"s","t","e","p","s">>) THEN DictGet(plan.o, <<"s","t","e","p","s">>) ELSE JArr(<< >>)
  IN  IF plan.t # "obj" THEN [ok |-> FALSE, err |-> "AttributeError", steps |-> << >>]
      ELSE IF v.t = "arr" THEN [ok |-> TRUE, err |-> "none", steps |-> v.a]
      ELSE IF v.t = "str"
           THEN [ok |-> TRUE, err |-> "none", steps |-> [j \in 1..Len(v.s) |-> JStr(<< v.s[j] >>)]]
      ELSE IF v.t = "obj"
           THEN [ok |-> TRUE, err |-> "none", steps |-> [j \in 1..Len(v.o) |-> JStr(v.o[j][1])]]
      ELSE [ok |-> FALSE, err |-> "TypeError", steps |-> << >>]

\* the plan run() uses: json.loads(content), the fallback on JSONDecodeError
ParsePlan(content) ==
  LET parsed == json_loads(content)
  IN  IF parsed.ok THEN parsed.val ELSE FallbackPlan

\* run(), lines 119-129: the planning response has arrived
plan_stage(w, resp) ==
  LET plan == ParsePlan(resp.content[1])
      w1 == [w EXCEPT !.run.plan_response = Some(resp)]
      w2 == [w1 EXCEPT !.run.trace = Append(w1.run.trace,
                                            [role |-> "AI", stage |-> "Plan", content |-> plan]),
                       !.mem = add_short(w1.mem, "plan", json_dumps(plan)),
                       !.run.usage = [accumulate_usage(w1.run.usage, RespUsage(resp))
                                        EXCEPT !.steps = w1.run.usage.steps + 1]]
      it == PlanSteps(plan)
  IN  IF resp.content = None THEN Raise(w1, "KeyError")
      ELSE IF ~it.ok THEN Raise(w2, it.err)
      ELSE NextStep([w2 EXCEPT !.run.steps = it.steps, !.run.i = 0])

\* the head of an acting step that emits nothing before the model call
think_silent(w) ==
  [w EXCEPT !.run.pc = "act",
            !.run.prompt = <<"P","e","r","f","o","r","m"," ","s","t","e","p",":"," ">> \o PyStr(w.run.steps[w.run.i])]

\* run(), lines 130-135: the head of one acting step, up to the model call
think_stage(w) ==
  LET step == PyStr(w.run.steps[w.run.i])
      w1 == StreamEvent(w, "model_thinking", <<"T","h","i","n","k","i","n","g"," ","a","b","o","u","t"," ","s","t","e","p",":"," ">> \o step)
  IN  IF Raised(w1) THEN w1
      ELSE [w1 EXCEPT !.run.pc = "act", !.run.prompt = <<"P","e","r","f","o","r","m"," ","s","t","e","p",":"," ">> \o step]

\* the end of a step that counts the step only when the step left a trace entry
step_end_untraced(w) ==
  IF w.run.pc = "emit"
  THEN NextStep([w EXCEPT !.kg = add_text(w.kg, w.run.content),
                          !.run.usage = [accumulate_usage(w.run.usage, w.run.resp_usage)
                                           EXCEPT !.steps = w.run.usage.steps + 1]])
  ELSE NextStep([w EXCEPT !.kg = add_text(w.kg, w.run.content)])

\* run(), lines 155-157 and the loop's next iteration
step_end(w) ==
  NextStep([w EXCEPT !.kg = add_text(w.kg, w.run.content),
                     !.run.usage = [accumulate_usage(w.run.usage, w.run.resp_usage)
                                      EXCEPT !.steps = w.run.usage.steps + 1]])

\* run(), lines 145-146: the Tool trace entry and the short-term entry
record_tool(w, tool_name, tool_result) ==
  [w EXCEPT !.run.trace = Append(w.run.trace,
                                 [role |-> "Tool", name |-> tool_name, response |-> tool_result]),
            !.mem = add_short(w.mem, "tool", tool_result),
            !.run.pc = "emit"]

\* run(), lines 150-151: the Act trace entry and the short-term entry
record_act(w, content) ==
  [w EXCEPT !.run.trace = Append(w.run.trace,
                                 [role |-> "AI", stage |-> "Act", content |-> content]),
            !.mem = add_short(w.mem, "act", content),
            !.run.pc = "emit"]

\* `self.tools[tool_name]` for `self.tools.get(tool_name)`: an unknown name raises
LookupStrict(registry, name) ==
  IF name \in registry THEN [found |-> TRUE, err |-> "none"]
  ELSE [found |-> FALSE, err |-> "KeyError"]

\* self.tools.get(tool_name): None for an unknown name
Lookup(registry, name) == [found |-> name \in registry, err |-> "none"]

UnknownTool(tool_name) == <<"[","U","n","k","n","o","w","n"," ","t","o","o","l",":"," ">> \o tool_name \o <<"]">>

\* run(), lines 136-151: the response of an acting step has arrived
act_stage(w, resp) ==
  LET content == IF resp.content = None THEN << >> ELSE resp.content[1]
      w1 == [w EXCEPT !.run.content = content,
                      !.run.resp_usage = RespUsage(resp),
                      !.run.tool_name = << >>, !.run.tool_input = << >>]
      parts == SplitMax(content, ":", 2)
      tool == Lookup(w.tools, parts[2])
  IN  IF StartsWith(content, TOOL_PREFIX)
      THEN IF Len(parts) = 3
           THEN IF tool.err # "none" THEN Raise(w1, tool.err)
                ELSE IF tool.found
                THEN [w1 EXCEPT !.run.pc = "tool", !.run.tool_name = parts[2],
                                !.run.tool_input = parts[3]]
                ELSE record_tool([w1 EXCEPT !.run.tool_name = parts[2],
                                            !.run.tool_input = parts[3]],
                                 parts[2], UnknownTool(parts[2]))
           ELSE step_end(w1)
      ELSE record_act(w1, content)

\* a tool call that is made again when the tool raises
tool_stage_retry(w, out) ==
  IF out.raised THEN w
  ELSE record_tool(w, w.run.tool_name, out.value)

\* run(), lines 144-146 for a registered tool: tool(tool_input) has returned
\* out.value, or has raised
tool_stage(w, out) ==
  IF out.raised THEN Raise(w, "ToolExecutionError")
  ELSE record_tool(w, w.run.tool_name, out.value)

\* run(), lines 147-148 / 152-153 and then the end of the step
emit_stage(w) ==
  LET data == IF StartsWith(w.run.content, TOOL_PREFIX)
              THEN <<"T","o","o","l"," ">> \o w.run.tool_name \o <<" ","e","x","e","c","u","t","e","d",".">>
              ELSE <<"P","r","o","d","u","c","e","d",":"," ">> \o w.run.content
      w1 == StreamEvent(w, "model_content", data)
  IN  IF Raised(w1) THEN w1 ELSE step_end(w1)

\* the confidence that counts every character, without the cap at 1.0
ConfidenceUncapped(reflection) == Len(reflection)

\* round(min(1.0, len(reflection) / 100.0), 2), in hundredths
Confidence(reflection) == Min({100, Len(reflection)})

\* reflection.replace("FINAL:", "").strip()
FinalAnswer(reflection) == Strip(RemoveAll(reflection, FINAL_MARK))

\* run(), lines 161-179: the reflection has arrived; runtime is the clock's
\* reading since start_time
reflect_stage(w, resp, runtime) ==
  LET reflection == IF resp.content = None THEN << >> ELSE resp.content[1]
      trace == Append(w.run.trace,
                      [role |-> "AI", stage |-> "Reflect", content |-> reflection,
                       meta_reflection |-> [confidence |-> Confidence(reflection)]])
      usage == [accumulate_usage(w.run.usage, RespUsage(resp))
                  EXCEPT !.steps = w.run.usage.steps + 1]
      final == [k \in DOMAIN usage \cup {"runtime_sec"} |->
                  IF k = "runtime_sec" THEN runtime ELSE usage[k]]
  IN  [w EXCEPT !.run.trace = trace,
                !.run.usage = final,
                !.run.pc = "done",
                !.run.result = Some([objective |-> w.run.objective,
                                     trace |-> trace,
                                     final_answer |-> FinalAnswer(reflection),
                                     usage |-> final,
                                     knowledge_graph |-> summary(w.kg)])]

\* a failed planning call taken for an unparseable plan: the fallback plan is used
model_raise_masked(w) ==
  IF w.run.pc = "plan"
  THEN plan_stage(w, [content |-> Some(<< >>), usage |-> None])
  ELSE Raise(w, "ModelInvocationError")

\* the model call the run waits for raises: nothing in run() catches it
model_raise(w) == Raise(w, "ModelInvocationError")

(***************************************************************************)
(* The state: one CognitiveAgent, the calls of run() made on it, what the  *)
(* model, the tools and the sinks saw, and the callers of the Memory and   *)
(* KnowledgeGraph interfaces.                                              *)
(***************************************************************************)
VARIABLES
  stream_response,  \* self.stream_response
  tools,            \* self.tools: the names registered
  memory,           \* self.memory
  file,             \* the text of the durable log at memory.path
  kg,               \* self.kg
  runs,             \* the calls of run() so far, in the order they were made
  events,           \* events[r]: what the sink of run r received, in order
  model_log,        \* the model invocations: [run, stage, raised], in order
  tool_log,         \* the tool invocations: [run, step, name, input, out], in order
  n_add_text,       \* direct add_text calls made so far
  calls,            \* the last two calls of the Memory interface, oldest first
  twin              \* a second agent fed the same inputs, its run given no sink

vars == <<stream_response, tools, memory, file, kg, runs, events, model_log,
          tool_log, n_add_text, calls, twin>>

RunIds == DOMAIN runs

\* the model can still be invoked within the bound of the model
CanCall == Len(model_log) < MaxModelCalls

(***************************************************************************)
(* Inputs.                                                                 *)
(***************************************************************************)
echo_tool == <<"e","c","h","o","_","t","o","o","l">>
ECHO == <<"E","C","H","O",":"," ">>

\* what a registered tool may do when called: echo_tool of the tests returns
\* "ECHO: " + text; any callable may raise
ToolOutcomes(name, input) ==
  {[raised |-> FALSE, value |-> ECHO \o input], [raised |-> TRUE, value |-> << >>]}

Resp(content, usage) == [content |-> Some(content), usage |-> usage]
NoContent(usage) == [content |-> None, usage |-> usage]
FullUsage == Some([prompt_tokens |-> 2, completion_tokens |-> 1, total_tokens |-> 3])
PartUsage == Some([prompt_tokens |-> 1])

PlanTwo == <<"{","\"","s","t","e","p","s","\"",":"," ","[","\"","a","\"",","," ","\"","b","\"","]",","," ","\"","r","a","t","i","o","n","a","l","e","\"",":"," ","\"","r","\"","}">>
PlanNoSteps == <<"{","\"","r","a","t","i","o","n","a","l","e","\"",":"," ","\"","r","\"","}">>
PlanText == <<"d","o"," ","i","t">>
PlanList == <<"[","1",","," ","2","]">>

PlanResponses ==
  {Resp(PlanTwo, FullUsage), Resp(PlanNoSteps, PartUsage), Resp(PlanText, None),
   Resp(PlanList, FullUsage)}

ActDirect == <<"A","i"," ","u","s","e","s"," ","D","b",".">>
ActEcho == <<"T","O","O","L",":","e","c","h","o","_","t","o","o","l",":","A","i",":","b">>
ActGhost == <<"T","O","O","L",":","g","h","o","s","t",":","x">>
ActMalformed == <<"T","O","O","L",":","x">>

ActResponses ==
  {Resp(ActDirect, FullUsage), Resp(ActEcho, PartUsage), Resp(ActGhost, None),
   Resp(ActMalformed, FullUsage)}

ReflectFinal == <<"F","I","N","A","L",":"," ","o","k">>

ReflectResponses == {Resp(ReflectFinal, FullUsage), NoContent(None)}

\* reflection texts: every length up to MaxReflectLen, and texts with the
\* FINAL: marker in front, in the middle, and not at all
Filler(n) == [j \in 1..n |-> "x"]
ReflectMid == <<"a"," ","F","I","N","A","L",":"," ","b">>
ReflectPlain == <<" ","o","k"," ">>
ReflectTexts ==
  {Filler(n) : n \in 0..MaxReflectLen} \cup {ReflectFinal, ReflectMid, ReflectPlain}

Objectives == {<<"g","o">>}
AddTexts == {<<"W","e"," ","l","i","k","e"," ","D","b"," ","a","n","d"," ","t","h","e"," ","X","y","!"," ","i","t"," ","h","a","s"," ","A","i">>, <<"T","O","O","L",":","g","h","o","s","t",":","x">>}
LongTexts == {<<"a">>, <<"b","\"","c">>}
Paths == {None, Some(<<"m">>)}

(***************************************************************************)
(* Construction: CognitiveAgent.__init__                                   *)
(***************************************************************************)
World0(stream, path) ==
  [stream |-> stream, tools |-> {echo_tool}, mem |-> MemoryInit(path), kg |-> KGInit,
   run |-> IdleRun, events |-> << >>]

AgentInit(stream, path) ==
  /\ stream_response = stream
  /\ tools = {echo_tool}
  /\ memory = MemoryInit(path)
  /\ file = << >>
  /\ kg = KGInit
  /\ runs = << >>
  /\ events = << >>
  /\ model_log = << >>
  /\ tool_log = << >>
  /\ n_add_text = 0
  /\ calls = << >>
  /\ twin = World0(stream, path)

Init == \E stream \in BOOLEAN : AgentInit(stream, None)

(***************************************************************************)
(* The world of run r, and the state after a piece of run r.               *)
(***************************************************************************)
World(r) ==
  [stream |-> stream_response, tools |-> tools, mem |-> memory, kg |-> kg,
   run |-> runs[r], events |-> events[r]]

Put(r, w) ==
  /\ memory' = w.mem
  /\ kg' = w.kg
  /\ runs' = [runs EXCEPT ![r] = w.run]
  /\ events' = [events EXCEPT ![r] = w.events]
  /\ UNCHANGED <<stream_response, tools, file, n_add_text, calls>>

\* the model was invoked by run r
ModelCalled(r, raised) ==
  model_log' = Append(model_log, [run |-> r, stage |-> runs[r].pc, raised |-> raised])

Active(r) == runs[r].pc \notin {"done", "raised"}
AwaitsModel(pc) == pc \in {"plan", "act", "reflect"}

\* run() is called; one run at a time, as the agent is single-threaded
StartRun(objective, sink) ==
  /\ \A q \in RunIds : ~Active(q)
  /\ CanCall
  /\ LET w == run_start([stream |-> stream_response, tools |-> tools, mem |-> memory,
                         kg |-> kg, run |-> IdleRun, events |-> << >>], objective, sink)
     IN  /\ runs' = Append(runs, w.run)
         /\ events' = Append(events, w.events)
  /\ UNCHANGED <<stream_response, tools, memory, file, kg, model_log, tool_log,
                 n_add_text, calls, twin>>

PlanReturn(r, resp) ==
  /\ runs[r].pc = "plan"
  /\ CanCall
  /\ Put(r, plan_stage(World(r), resp))
  /\ ModelCalled(r, FALSE)
  /\ UNCHANGED <<tool_log, twin>>

Think(r) ==
  /\ runs[r].pc = "think"
  /\ Put(r, think_stage(World(r)))
  /\ UNCHANGED <<model_log, tool_log, twin>>

ActReturn(r, resp) ==
  /\ runs[r].pc = "act"
  /\ CanCall
  /\ Put(r, act_stage(World(r), resp))
  /\ ModelCalled(r, FALSE)
  /\ UNCHANGED <<tool_log, twin>>

ToolReturn(r, out) ==
  /\ runs[r].pc = "tool"
  /\ Put(r, tool_stage(World(r), out))
  /\ tool_log' = Append(tool_log, [run |-> r, step |-> runs[r].i,
                                   name |-> runs[r].tool_name,
                                   input |-> runs[r].tool_input, out |-> out])
  /\ UNCHANGED <<model_log, twin>>

Emit(r) ==
  /\ runs[r].pc = "emit"
  /\ Put(r, emit_stage(World(r)))
  /\ UNCHANGED <<model_log, tool_log, twin>>

ReflectReturn(r, resp, runtime) ==
  /\ runs[r].pc = "reflect"
  /\ CanCall
  /\ Put(r, reflect_stage(World(r), resp, runtime))
  /\ ModelCalled(r, FALSE)
  /\ UNCHANGED <<tool_log, twin>>

ModelRaise(r) ==
  /\ AwaitsModel(runs[r].pc)
  /\ CanCall
  /\ Put(r, model_raise(World(r)))
  /\ ModelCalled(r, TRUE)
  /\ UNCHANGED <<tool_log, twin>>

RunStep(r) ==
  \/ \E resp \in PlanResponses : PlanReturn(r, resp)
  \/ Think(r)
  \/ \E resp \in ActResponses : ActReturn(r, resp)
  \/ \E out \in ToolOutcomes(runs[r].tool_name, runs[r].tool_input) : ToolReturn(r, out)
  \/ Emit(r)
  \/ \E resp \in ReflectResponses : ReflectReturn(r, resp, 0)
  \/ ModelRaise(r)

Next ==
  \/ \E o \in Objectives, sink \in BOOLEAN : StartRun(o, sink)
  \/ \E r \in RunIds : RunStep(r)

Spec == Init /\ [][Next]_vars

(***************************************************************************)
(* Direct calls of agent.kg.add_text between runs, with runs whose steps   *)
(* feed the graph.                                                         *)
(***************************************************************************)
AddText(text) ==
  /\ n_add_text < MaxAddText
  /\ \A q \in RunIds : ~Active(q)
  /\ kg' = add_text(kg, text)
  /\ n_add_text' = n_add_text + 1
  /\ UNCHANGED <<stream_response, tools, memory, file, runs, events, model_log,
                 tool_log, calls, twin>>

NextKG ==
  \/ \E text \in AddTexts : AddText(text)
  \/ \E o \in Objectives : StartRun(o, FALSE)
  \/ \E r \in RunIds :
       \/ PlanReturn(r, Resp(PlanText, None))
       \/ Think(r)
       \/ \E resp \in {Resp(ActDirect, FullUsage), Resp(ActGhost, None)} : ActReturn(r, resp)
       \/ Emit(r)
       \/ ReflectReturn(r, Resp(ReflectFinal, FullUsage), 0)

SpecKG == Init /\ [][NextKG]_vars

(***************************************************************************)
(* Runs of the plain-text plan (the fallback, one step) whose reflection   *)
(* ranges over ReflectTexts.                                               *)
(***************************************************************************)
NextReflect ==
  \/ \E o \in Objectives : StartRun(o, FALSE)
  \/ \E r \in RunIds :
       \/ PlanReturn(r, Resp(PlanText, None))
       \/ Think(r)
       \/ ActReturn(r, Resp(ActDirect, FullUsage))
       \/ Emit(r)
       \/ \E text \in ReflectTexts : ReflectReturn(r, Resp(text, FullUsage), 0)
       \/ ReflectReturn(r, NoContent(None), 0)

SpecReflect == Init /\ [][NextReflect]_vars

(***************************************************************************)
(* The Memory interface called directly: persist_long and recall_long.     *)
(***************************************************************************)
\* the last two calls, oldest first
Window(cs) == IF Len(cs) > 2 THEN SubSeq(cs, Len(cs) - 1, Len(cs)) ELSE cs

PersistLong(text, now, io_ok) ==
  /\ Len(memory.long_term) < MaxLong
  /\ io_ok \/ Truthy(memory.path)
  /\ LET out == persist_long(memory, file, text, now, io_ok)
     IN  /\ memory' = out.mem
         /\ file' = out.file
         /\ calls' = Window(Append(calls, [op |-> "persist_long", text |-> text, n |-> 0,
                                           ret |-> << >>, raised |-> out.raised]))
  /\ UNCHANGED <<stream_response, tools, kg, runs, events, model_log, tool_log,
                 n_add_text, twin>>

RecallLong(n) ==
  /\ calls' = Window(Append(calls, [op |-> "recall_long", text |-> << >>, n |-> n,
                                    ret |-> recall_long(memory, n), raised |-> FALSE]))
  /\ UNCHANGED <<stream_response, tools, memory, file, kg, runs, events, model_log,
                 tool_log, n_add_text, twin>>

InitMem == \E path \in Paths : AgentInit(FALSE, path)

NextMem ==
  \/ \E text \in LongTexts, now \in 0..MaxTime, io_ok \in BOOLEAN : PersistLong(text, now, io_ok)
  \/ \E n \in 0..MaxRecall : RecallLong(n)

SpecMem == InitMem /\ [][NextMem]_vars

(***************************************************************************)
(* Two agents built alike and fed the same responses and tool results: the *)
(* runs of the first are given a sink, the runs of the twin none.          *)
(***************************************************************************)
\* the twin takes the same piece of run() when it stands where run r stands
TwinDoes(r, after) == twin' = IF twin.run.pc = runs[r].pc THEN after ELSE twin

PairStart(objective) ==
  /\ \A q \in RunIds : ~Active(q)
  /\ CanCall
  /\ LET w == run_start([stream |-> stream_response, tools |-> tools, mem |-> memory,
                         kg |-> kg, run |-> IdleRun, events |-> << >>], objective, TRUE)
     IN  /\ runs' = Append(runs, w.run)
         /\ events' = Append(events, w.events)
  /\ twin' = run_start(twin, objective, FALSE)
  /\ UNCHANGED <<stream_response, tools, memory, file, kg, model_log, tool_log,
                 n_add_text, calls>>

PairPlan(r, resp) ==
  /\ runs[r].pc = "plan"
  /\ CanCall
  /\ Put(r, plan_stage(World(r), resp))
  /\ TwinDoes(r, plan_stage(twin, resp))
  /\ ModelCalled(r, FALSE)
  /\ UNCHANGED tool_log

PairThink(r) ==
  /\ runs[r].pc = "think"
  /\ Put(r, think_stage(World(r)))
  /\ TwinDoes(r, think_stage(twin))
  /\ UNCHANGED <<model_log, tool_log>>

PairAct(r, resp) ==
  /\ runs[r].pc = "act"
  /\ CanCall
  /\ Put(r, act_stage(World(r), resp))
  /\ TwinDoes(r, act_stage(twin, resp))
  /\ ModelCalled(r, FALSE)
  /\ UNCHANGED tool_log

PairTool(r, out) ==
  /\ runs[r].pc = "tool"
  /\ Put(r, tool_stage(World(r), out))
  /\ TwinDoes(r, tool_stage(twin, out))
  /\ tool_log' = Append(tool_log, [run |-> r, step |-> runs[r].i,
                                   name |-> runs[r].tool_name,
                                   input |-> runs[r].tool_input, out |-> out])
  /\ UNCHANGED model_log

PairEmit(r) ==
  /\ runs[r].pc = "emit"
  /\ Put(r, emit_stage(World(r)))
  /\ TwinDoes(r, emit_stage(twin))
  /\ UNCHANGED <<model_log, tool_log>>

PairReflect(r, resp, runtime) ==
  /\ runs[r].pc = "reflect"
  /\ CanCall
  /\ Put(r, reflect_stage(World(r), resp, runtime))
  /\ TwinDoes(r, reflect_stage(twin, resp, runtime))
  /\ ModelCalled(r, FALSE)
  /\ UNCHANGED tool_log

PairModelRaise(r) ==
  /\ AwaitsModel(runs[r].pc)
  /\ CanCall
  /\ Put(r, model_raise(World(r)))
  /\ TwinDoes(r, model_raise(twin))
  /\ ModelCalled(r, TRUE)
  /\ UNCHANGED tool_log

NextPair ==
  \/ \E o \in Objectives : PairStart(o)
  \/ \E r \in RunIds :
       \/ \E resp \in PlanResponses : PairPlan(r, resp)
       \/ PairThink(r)
       \/ \E resp \in ActResponses : PairAct(r, resp)
       \/ \E out \in ToolOutcomes(runs[r].tool_name, runs[r].tool_input) : PairTool(r, out)
       \/ PairEmit(r)
       \/ \E resp \in ReflectResponses : PairReflect(r, resp, 0)
       \/ PairModelRaise(r)

SpecPair == Init /\ [][NextPair]_vars

(***************************************************************************)
(* Two runs on one agent, interleaved at the calls of the model, of the    *)
(* tools and of the sink.  The model answers by its prompt, as the         *)
(* DummyModel of the tests does, so each run is given the same answers     *)
(* however the two are interleaved.                                        *)
(***************************************************************************)
OtherObjective == <<"d","o">>
BothObjectives == Objectives \cup {OtherObjective}
ActOther == <<"I","t"," ","h","a","s"," ","X","y",".">>

\* the prompt ends with this text
EndsWith(s, p) == Len(s) >= Len(p) /\ Slice(s, Len(s) - Len(p) + 1, Len(s)) = p

\* a model that is a function of its prompt
PromptModel(prompt) ==
  IF Contains(prompt, <<"P","l","a","n","n","e","r">>)
  THEN IF EndsWith(prompt, OtherObjective) THEN Resp(PlanText, PartUsage)
       ELSE Resp(PlanTwo, FullUsage)
  ELSE IF Contains(prompt, <<"R","e","f","l","e","c","t","o","r">>)
  THEN IF EndsWith(prompt, OtherObjective) THEN Resp(ReflectMid, FullUsage)
       ELSE Resp(ReflectFinal, FullUsage)
  ELSE IF prompt = <<"P","e","r","f","o","r","m"," ","s","t","e","p",":"," ","a">> THEN Resp(ActDirect, FullUsage)
  ELSE IF prompt = <<"P","e","r","f","o","r","m"," ","s","t","e","p",":"," ","b">> THEN Resp(ActEcho, PartUsage)
  ELSE Resp(ActOther, FullUsage)

EchoReturn(input) == [raised |-> FALSE, value |-> ECHO \o input]

\* run() is called while another run may be under way; each objective once
ConcStart(objective) ==
  /\ \A q \in RunIds : runs[q].objective # objective
  /\ LET w == run_start([stream |-> stream_response, tools |-> tools, mem |-> memory,
                         kg |-> kg, run |-> IdleRun, events |-> << >>], objective, TRUE)
     IN  /\ runs' = Append(runs, w.run)
         /\ events' = Append(events, w.events)
         /\ memory' = w.mem
         /\ kg' = w.kg
  /\ UNCHANGED <<stream_response, tools, file, model_log, tool_log, n_add_text,
                 calls, twin>>

\* the model returns to run r, whatever stage r is in
ConcModel(r) ==
  /\ AwaitsModel(runs[r].pc)
  /\ LET resp == PromptModel(runs[r].prompt)
         w == World(r)
     IN  Put(r, IF runs[r].pc = "plan" THEN plan_stage(w, resp)
                ELSE IF runs[r].pc = "act" THEN act_stage(w, resp)
                ELSE reflect_stage(w, resp, 0))
  /\ ModelCalled(r, FALSE)
  /\ UNCHANGED <<tool_log, twin>>

NextConc ==
  \/ \E o \in BothObjectives : ConcStart(o)
  \/ \E r \in RunIds :
       \/ ConcModel(r)
       \/ Think(r)
       \/ ToolReturn(r, EchoReturn(runs[r].tool_input))
       \/ Emit(r)

SpecConc == Init /\ [][NextConc]_vars

\* run() carried through without another run in between
RECURSIVE Drive(_)
Drive(w) ==
  IF w.run.pc = "plan" THEN Drive(plan_stage(w, PromptModel(w.run.prompt)))
  ELSE IF w.run.pc = "think" THEN Drive(think_stage(w))
  ELSE IF w.run.pc = "act" THEN Drive(act_stage(w, PromptModel(w.run.prompt)))
  ELSE IF w.run.pc = "tool" THEN Drive(tool_stage(w, EchoReturn(w.run.tool_input)))
  ELSE IF w.run.pc = "emit" THEN Drive(emit_stage(w))
  ELSE IF w.run.pc = "reflect" THEN Drive(reflect_stage(w, PromptModel(w.run.prompt), 0))
  ELSE w

\* the only run of a new agent
Alone(stream, objective) == Drive(run_start(World0(stream, None), objective, TRUE))

(***************************************************************************)
(* What the claims speak of.                                               *)
(***************************************************************************)
Last(q) == q[Len(q)]
IsPrefix(a, b) == Len(a) <= Len(b) /\ SubSeq(b, 1, Len(a)) = a

\* TOOL:<name>:<input>: the prefix and a second colon
Colons(c) == {j \in 1..Len(c) : c[j] = ":"}
IsToolCall(c) == StartsWith(c, TOOL_PREFIX) /\ Cardinality(Colons(c)) >= 2
SecondColon(c) == Min(Colons(c) \ {Min(Colons(c))})
CallName(c) == Slice(c, Min(Colons(c)) + 1, SecondColon(c) - 1)
CallInput(c) == Slice(c, SecondColon(c) + 1, Len(c))

\* the run has dealt with the response held in run.content, and nothing since
StepHandled(run) == run.pc \in {"emit", "think", "reflect"}
\* the index of that step
HandledStep(run) == IF run.pc = "think" THEN run.i - 1 ELSE run.i
\* the tool invocations of step k of run r
ToolCallsOf(r, k) == SelectSeq(tool_log, LAMBDA e : e.run = r /\ e.step = k)

\* N: the number of entries of the steps sequence of the plan in the trace
PlanN(run) ==
  LET plan == run.trace[1].content
  IN  IF DictHas(plan.o, <<"s","t","e","p","s">>) THEN Len(DictGet(plan.o, <<"s","t","e","p","s">>).a) ELSE 0

\* C1: every run that returns gives a result with final_answer, trace, usage
\* and knowledge_graph, and usage.steps = N + 2 for the N steps of its plan,
\* whatever the model answered in each step.
C1_UsageSteps ==
  \A r \in RunIds :
    /\ (runs[r].result # None) <=> (runs[r].pc = "done")
    /\ runs[r].pc = "done" =>
         LET res == runs[r].result[1]
         IN  /\ {"final_answer", "trace", "usage", "knowledge_graph"} \subseteq DOMAIN res
             /\ res.usage.steps = PlanN(runs[r]) + 2

\* a run of a two-step plan has returned; one step was a malformed tool call
\* (it left no trace entry) and the other was routed to a tool
C1_Witness ==
  \E r \in RunIds :
    /\ runs[r].pc = "done"
    /\ PlanN(runs[r]) = 2
    /\ Len(runs[r].trace) = 3
    /\ runs[r].trace[2].role = "Tool"

\* C2: a response TOOL:<name>:<input> with <name> registered invokes that tool
\* once with everything after the second colon, and the step's trace entry is
\* the Tool entry of that name carrying exactly what the tool returned.
C2_ToolRouting ==
  \A r \in RunIds :
    LET run == runs[r]
        c == run.content
        made == ToolCallsOf(r, HandledStep(run))
    IN  (IsToolCall(c) /\ CallName(c) \in tools) =>
          /\ run.pc = "tool" => run.tool_name = CallName(c) /\ run.tool_input = CallInput(c)
          /\ StepHandled(run) =>
               /\ Len(made) = 1
               /\ made[1].name = CallName(c)
               /\ made[1].input = CallInput(c)
               /\ ~made[1].out.raised
               /\ Last(run.trace) = [role |-> "Tool", name |-> CallName(c),
                                     response |-> made[1].out.value]

\* the tool was called with an input that holds a colon, and its value is in
\* the trace
C2_Witness ==
  \E r \in RunIds :
    /\ runs[r].pc = "emit"
    /\ runs[r].content = ActEcho
    /\ Last(tool_log).input = <<"A","i",":","b">>
    /\ Last(runs[r].trace).response = <<"E","C","H","O",":"," ","A","i",":","b">>

\* C3: a response TOOL:<name>:<input> with <name> not registered invokes no
\* tool, leaves a Tool entry of that name whose response says the tool is
\* unknown, and does not end the run: the run goes on to the next step or to
\* the reflection, and only a later model failure can make it raise.
C3_UnknownTool ==
  \A r \in RunIds :
    LET run == runs[r]
        c == run.content
    IN  (IsToolCall(c) /\ CallName(c) \notin tools) =>
          /\ run.pc # "tool"
          /\ run.pc = "raised" => run.error = "ModelInvocationError"
          /\ StepHandled(run) =>
               /\ ToolCallsOf(r, HandledStep(run)) = << >>
               /\ Last(run.trace).role = "Tool"
               /\ Last(run.trace).name = CallName(c)
               /\ Contains(Last(run.trace).response, <<"U","n","k","n","o","w","n"," ","t","o","o","l">>)
               /\ Contains(Last(run.trace).response, CallName(c))

\* the first of two steps named an unknown tool; the second step and the
\* reflection were made and the run returned
C3_Witness ==
  \E r \in RunIds :
    /\ runs[r].pc = "done"
    /\ Len(runs[r].trace) = 4
    /\ runs[r].trace[2].role = "Tool"
    /\ runs[r].trace[2].name = <<"g","h","o","s","t">>
    /\ Contains(runs[r].trace[2].response, <<"U","n","k","n","o","w","n"," ","t","o","o","l">>)

\* a structured Plan: an object with a steps sequence
IsStructuredPlan(text) ==
  LET parsed == json_loads(text)
  IN  /\ parsed.ok
      /\ parsed.val.t = "obj"
      /\ DictHas(parsed.val.o, <<"s","t","e","p","s">>)
      /\ DictGet(parsed.val.o, <<"s","t","e","p","s">>).t = "arr"

\* C4: whenever the planning response's content is not a structured Plan, be
\* it no structured data at all or structured data that is no Plan, the run
\* uses the fallback plan: it is the Plan trace entry, its one step is the
\* step list, and planning does not make the run raise.
C4_FallbackForEveryNonPlan ==
  \A r \in RunIds :
    LET run == runs[r]
    IN  (/\ run.plan_response # None
         /\ run.plan_response[1].content # None
         /\ ~IsStructuredPlan(run.plan_response[1].content[1])) =>
          /\ run.trace[1].content = FallbackPlan
          /\ run.steps = << JStr(FallbackStep) >>
          /\ run.error \notin {"AttributeError", "TypeError"}

\* C5: a registered tool that raises does not end the run: the failure is
\* caught and a Tool trace entry of that tool records it.
C5_ToolFailureRecovered ==
  \A k \in DOMAIN tool_log :
    tool_log[k].out.raised =>
      /\ runs[tool_log[k].run].error # "ToolExecutionError"
      /\ \E j \in DOMAIN runs[tool_log[k].run].trace :
           /\ runs[tool_log[k].run].trace[j].role = "Tool"
           /\ runs[tool_log[k].run].trace[j].name = tool_log[k].name

\* C6: a model call that fails, in planning, in a step or in the reflection,
\* ends the run with that failure: the run has raised, returns no result, and
\* made no model call after the failed one.
C6_ModelFailureFatal ==
  \A k \in DOMAIN model_log :
    model_log[k].raised =>
      LET r == model_log[k].run
      IN  /\ runs[r].pc = "raised"
          /\ runs[r].error = "ModelInvocationError"
          /\ runs[r].result = None
          /\ \A j \in DOMAIN model_log : j > k => model_log[j].run # r

\* the model has failed once in each of the three stages
C6_Witness ==
  \A stage \in {"plan", "act", "reflect"} :
    \E k \in DOMAIN model_log : model_log[k].raised /\ model_log[k].stage = stage

\* the model_thinking events of a sink
ThinkingEvents(es) == SelectSeq(es, LAMBDA e : e.type = "model_thinking")

\* C7: with streaming enabled and a sink passed, when the trace entry of step
\* i has just been appended the sink already holds an event of step i: the
\* i-th model_thinking event, which names that step.
C7_EventBeforeEntry ==
  \A r \in RunIds :
    (stream_response /\ runs[r].sink /\ runs[r].pc = "emit") =>
      LET th == ThinkingEvents(events[r])
          i == runs[r].i
      IN  /\ Len(th) = i
          /\ th[i].data = <<"T","h","i","n","k","i","n","g"," ","a","b","o","u","t"," ","s","t","e","p",":"," ">> \o PyStr(runs[r].steps[i])

\* the entry of the second step of a streamed run has just been appended
C7_Witness ==
  \E r \in RunIds :
    /\ stream_response /\ runs[r].sink
    /\ runs[r].pc = "emit" /\ runs[r].i = 2
    /\ Len(runs[r].trace) = 3

\* C8: the run without a sink goes as the run with one: same position, same
\* failure if any, same trace, final answer and usage, same short-term memory
\* and knowledge graph; its sink-less side receives no event.
C8_SinkAbsenceSilent ==
  runs # << >> =>
    LET p == runs[Len(runs)]
        q == twin.run
    IN  /\ q.pc = p.pc
        /\ q.error = p.error
        /\ q.trace = p.trace
        /\ q.usage = p.usage
        /\ (q.result = None) <=> (p.result = None)
        /\ p.result # None =>
             /\ q.result[1].final_answer = p.result[1].final_answer
             /\ q.result[1].trace = p.result[1].trace
             /\ q.result[1].usage = p.result[1].usage
             /\ q.result[1].knowledge_graph = p.result[1].knowledge_graph
        /\ twin.mem.short_term = memory.short_term
        /\ twin.kg = kg
        /\ twin.events = << >>

\* a streamed run whose sink received the events of two steps has returned,
\* and so has its twin
C8_Witness ==
  /\ stream_response
  /\ runs # << >>
  /\ runs[Len(runs)].pc = "done"
  /\ twin.run.pc = "done"
  /\ Len(events[Len(runs)]) = 4
  /\ twin.events = << >>

\* C9: no step, whether a direct add_text call or a step of a run, removes a
\* node or an edge: the nodes before are among the nodes after and the edges
\* before are a prefix of the edges after.
C9_GraphMonotone ==
  [][kg.nodes \subseteq kg'.nodes /\ IsPrefix(kg.edges, kg'.edges)]_vars

\* the graph was fed directly and by a run, and holds several nodes and edges
C9_Witness ==
  /\ n_add_text >= 1
  /\ \E r \in RunIds : runs[r].pc = "done" /\ Len(runs[r].trace) = 3
  /\ Cardinality(kg.nodes) >= 5
  /\ Len(kg.edges) >= 3

\* C10: recall_long(1) called right after persist_long(t) returns exactly one
\* entry and its text is t, whatever was persisted before.
C10_PersistThenRecall ==
  (/\ Len(calls) = 2
   /\ calls[1].op = "persist_long"
   /\ calls[2].op = "recall_long"
   /\ calls[2].n = 1) =>
    /\ Len(calls[2].ret) = 1
    /\ calls[2].ret[1].text = calls[1].text

\* persist_long(t) then recall_long(1) on a memory that already held an entry
\* of another text
C10_Witness ==
  /\ Len(calls) = 2
  /\ calls[1].op = "persist_long"
  /\ calls[2].op = "recall_long" /\ calls[2].n = 1
  /\ Len(memory.long_term) >= 2
  /\ memory.long_term[1].text # calls[1].text

\* the Reflect entry of a run that returned
ReflectEntry(run) == Last(run.trace)

\* C11: the confidence of the Reflect entry, in hundredths, is min(100, length
\* of the reflection text): it lies in 0..100, is 100 from length 100 on, and
\* below length 100 it does not decrease when the text gets longer.
C11_ConfidenceBound ==
  \A r \in RunIds :
    runs[r].pc = "done" =>
      LET e == ReflectEntry(runs[r])
          n == Len(e.content)
          c == e.meta_reflection.confidence
      IN  /\ e.stage = "Reflect"
          /\ c \in 0..100
          /\ n >= 100 => c = 100
          /\ n < 100 => c = n
          /\ \A b \in ReflectTexts : (n <= Len(b) /\ Len(b) < 100) => c <= Confidence(b)
          /\ \A q \in RunIds :
               (runs[q].pc = "done" /\ n <= Len(ReflectEntry(runs[q]).content)
                                    /\ Len(ReflectEntry(runs[q]).content) < 100) =>
                 c <= ReflectEntry(runs[q]).meta_reflection.confidence

\* a run has returned whose reflection text is longer than 100 characters
C11_Witness ==
  \E r \in RunIds :
    /\ runs[r].pc = "done"
    /\ Len(ReflectEntry(runs[r]).content) > 100
    /\ ReflectEntry(runs[r]).meta_reflection.confidence = 100

\* C12: recall_long(n) returns exactly min(n, L) entries of a long-term
\* sequence of length L, its last min(n, L) entries in append order; so
\* recall_long(0) returns no entry.
C12_RecallCount ==
  (calls # << >> /\ Last(calls).op = "recall_long") =>
    LET L == Len(memory.long_term)
        k == Min({Last(calls).n, L})
    IN  /\ Len(Last(calls).ret) = k
        /\ Last(calls).ret = Slice(memory.long_term, L - k + 1, L)

\* the text without the FINAL: marker when the marker is its prefix
PrefixRemoved(text) ==
  IF StartsWith(text, FINAL_MARK) THEN Slice(text, Len(FINAL_MARK) + 1, Len(text)) ELSE text

\* C13: the final answer is the reflection text with the FINAL: marker removed
\* only where it is the prefix of the text, then trimmed; a marker elsewhere
\* in the text stays in the final answer.
C13_FinalAnswerPrefixOnly ==
  \A r \in RunIds :
    runs[r].pc = "done" =>
      runs[r].result[1].final_answer = Strip(PrefixRemoved(ReflectEntry(runs[r]).content))

\* the durable log that holds one record per entry, in the entries' order
RECURSIVE LogOf(_)
LogOf(entries) ==
  IF entries = << >> THEN << >>
  ELSE LogOf(SubSeq(entries, 1, Len(entries) - 1)) \o LogLine(Last(entries))

\* the number of newline-delimited records of a log
Records(log) == Cardinality({j \in 1..Len(log) : log[j] = "\n"})

\* C14: no step changes or removes an entry of the long-term sequence or a
\* character of the durable log.  A persist_long call whose write succeeds
\* adds exactly one entry, of its text, at the end of the sequence; with a log
\* configured it adds exactly that entry's record at the end of the log, so a
\* log that held the entries' records in order still does; with no log
\* configured the log stays as it was.
C14_AppendOnly ==
  [][LET before == memory.long_term
         after == memory'.long_term
         persisted == after # before
     IN  /\ IsPrefix(before, after)
         /\ IsPrefix(file, file')
         /\ ~persisted => file' = file
         /\ (persisted /\ ~Last(calls').raised) =>
              /\ Last(calls').op = "persist_long"
              /\ Len(after) = Len(before) + 1
              /\ Last(after).text = Last(calls').text
              /\ IF Truthy(memory.path)
                 THEN /\ file' = file \o LogLine(Last(after))
                      /\ Records(file') = Records(file) + 1
                      /\ file = LogOf(before) => file' = LogOf(after)
                 ELSE file' = file]_vars

\* two entries of different texts were persisted to a configured log, which
\* holds their two records in order
C14_Witness ==
  /\ Truthy(memory.path)
  /\ Len(memory.long_term) >= 2
  /\ memory.long_term[1].text # memory.long_term[2].text
  /\ file = LogOf(memory.long_term)
  /\ Records(file) = Len(memory.long_term)

\* C15: a run that returned with a plan of N steps has a trace of exactly
\* N + 2 entries: the Plan entry, one Tool or Act entry per step, the Reflect
\* entry; a response that starts with TOOL: but lacks the two fields leaves
\* an Act entry carrying it; and every step left one short-term entry.
C15_TraceStructure ==
  \A r \in RunIds :
    runs[r].pc = "done" =>
      LET trace == runs[r].trace
          N == PlanN(runs[r])
      IN  /\ Len(trace) = N + 2
          /\ trace[1].role = "AI" /\ trace[1].stage = "Plan"
          /\ \A k \in 2..(Len(trace) - 1) :
               \/ trace[k].role = "Tool"
               \/ trace[k].role = "AI" /\ trace[k].stage = "Act"
          /\ Last(trace).role = "AI" /\ Last(trace).stage = "Reflect"
          /\ Len(runs) = 1 => Len(memory.short_term) = N + 1

\* the text a step produced: the tool's result (or the unknown-tool string)
\* when the step left a Tool entry, the model's content otherwise
Produced(run) ==
  IF Last(run.trace).role = "Tool" THEN Last(run.trace).response ELSE run.content

\* C16: when a step that left a trace entry ends, the knowledge graph is fed
\* the text the step produced: for a tool step the tool's result, not the
\* TOOL:<name>:<input> request of the model.
C16_FeedsProducedText ==
  [][\A r \in RunIds :
       (runs[r].pc = "emit" /\ runs'[r].pc # "emit") =>
         kg' = add_text(kg, Produced(runs[r]))]_vars

\* how far a run has come: planning, then think/act/tool/emit of step 1, of
\* step 2, ..., then reflecting, then done; a run that raised has ended
Rank(run) ==
  CASE run.pc = "plan" -> 0
    [] run.pc = "think" -> 4 * run.i - 3
    [] run.pc = "act" -> 4 * run.i - 2
    [] run.pc = "tool" -> 4 * run.i - 1
    [] run.pc = "emit" -> 4 * run.i
    [] run.pc = "reflect" -> 4 * Len(run.steps) + 1
    [] run.pc = "done" -> 4 * Len(run.steps) + 2
    [] OTHER -> 4 * Len(run.steps) + 3

\* the model invocations of run r in a stage
ModelCallsOf(r, stage) == SelectSeq(model_log, LAMBDA e : e.run = r /\ e.stage = stage)

\* the calls run r has made up to now are those of a run that never repeats
Linear(r) ==
  LET run == runs[r]
  IN  /\ Len(ModelCallsOf(r, "plan")) <= 1
      /\ Len(ModelCallsOf(r, "act")) <= run.i
      /\ Len(ModelCallsOf(r, "reflect")) <= 1
      /\ \A k \in 1..Len(run.steps) : Len(ToolCallsOf(r, k)) <= 1
      /\ run.pc = "done" =>
           /\ Len(ModelCallsOf(r, "plan")) = 1
           /\ Len(ModelCallsOf(r, "act")) = PlanN(run)
           /\ Len(ModelCallsOf(r, "reflect")) = 1
           /\ Len(SelectSeq(model_log, LAMBDA e : e.run = r)) = PlanN(run) + 2

C18_EventsBeforeEntry ==
  [][\A r \in RunIds :
       (stream_response /\ runs[r].sink) =>
         /\ IsPrefix(events[r], events'[r])
         /\ runs[r].pc = "emit" => events'[r] = events[r]]_vars

\* what a value returned by summary() shows when it is read while the graph
\* is g: its nodes are the list made when it was returned, its edges are the
\* graph's own list, read as it is now
Seen(s, g) == [nodes |-> s.nodes, edges |-> g.edges]

\* C19: the knowledge_graph of a result that run() returned is a snapshot: no
\* later add_text call and no later run changes its nodes or its edges.
C19_SummarySnapshot ==
  [][\A r \in RunIds :
       runs[r].result # None =>
         Seen(runs[r].result[1].knowledge_graph, kg')
           = Seen(runs[r].result[1].knowledge_graph, kg)]_vars

\* the elements of a sequence
Range(q) == {q[k] : k \in DOMAIN q}
\* the entries of q that are among those of own, in the order q holds them
Among(q, own) == SelectSeq(q, LAMBDA e : e \in Range(own))

\* C20: of two runs on one agent, interleaved in any way at the calls of the
\* model, the tools and the sink, each returns the trace and the usage it
\* would return alone on a new agent (its own plan first, usage.steps = its
\* own N + 2), while the short-term memory and the knowledge graph are shared
\* and never reset: each run's own entries are there in that run's order, and
\* once both returned they hold the contributions of both.
C20_RunOwnership ==
  /\ \A r \in RunIds :
       LET alone == Alone(stream_response, runs[r].objective)
       IN  /\ IsPrefix(Among(memory.short_term, alone.mem.short_term), alone.mem.short_term)
           /\ IsPrefix(Among(kg.edges, alone.kg.edges), alone.kg.edges)
           /\ runs[r].pc = "done" =>
                /\ runs[r].result[1].trace = alone.run.result[1].trace
                /\ runs[r].result[1].usage = alone.run.result[1].usage
                /\ runs[r].result[1].usage.steps = PlanN(runs[r]) + 2
                /\ runs[r].result[1].trace[1].content
                     = ParsePlan(runs[r].plan_response[1].content[1])
                /\ Among(memory.short_term, alone.mem.short_term) = alone.mem.short_term
                /\ Among(kg.edges, alone.kg.edges) = alone.kg.edges
                /\ alone.kg.nodes \subseteq kg.nodes
  /\ (Len(runs) = 2 /\ \A r \in RunIds : runs[r].pc = "done") =>
       LET one == Alone(stream_response, runs[1].objective)
           two == Alone(stream_response, runs[2].objective)
       IN  /\ Len(memory.short_term) = Len(one.mem.short_term) + Len(two.mem.short_term)
           /\ Len(kg.edges) = Len(one.kg.edges) + Len(two.kg.edges)
           /\ kg.nodes = one.kg.nodes \cup two.kg.nodes

\* both runs have returned; both had planned before either acted, and the
\* second reflected between two model calls of the first
C20_Witness ==
  /\ Len(runs) = 2
  /\ \A r \in RunIds : runs[r].pc = "done"
  /\ \E i, j, k \in DOMAIN model_log :
       /\ i < j /\ j < k
       /\ model_log[i].run = 1 /\ model_log[j].run = 2 /\ model_log[k].run = 1
       /\ model_log[j].stage = "reflect"
  /\ memory.short_term[2].role = "plan"
  /\ memory.short_term[3].role = "act"

====
